---- MODULE Spec2Model ----
(***************************************************************************)
(* Practice session engine of the Face Cards trainer: the PracticeView     *)
(* guess/session state machine (src/unnamed/part_004, duplicated in        *)
(* src/src/pages/SharedDeckPage.jsx) together with the RocketGame altitude *)
(* loop (src/src/components/RocketGame.jsx).                               *)
(*                                                                         *)
(* React state (useState) is a variable per hook.  Every handler of a      *)
(* discrete DOM event (click, change, keydown) is one action that holds    *)
(* the handler's state updates and the re-render with its effects.  State  *)
(* updates made from a timer or from an animation frame are applied in the *)
(* action of that callback; the RocketGame animation effect, whose render  *)
(* closure holds the props of the render that started it, is re-run by the *)
(* separate action CommitEffects, so a frame may still run on the old      *)
(* closure in between.                                                     *)
(*                                                                         *)
(* Strings are sequences of one-character strings; an altitude is a        *)
(* fixed-point number in tenths of a percent (500 is 50%).                 *)
(***************************************************************************)
EXTENDS Integers, Sequences, FiniteSets, TLC

(* ------------------------------ bounds -------------------------------- *)

\* Largest number of cards with a photo in the deck.
MaxCards == 2

\* Largest reading of the wall clock (Date.now()), in timer periods.
MaxClock == 2

\* Most setTimeout callbacks of one kind that are pending at a time.
MaxTimers == 1

\* Most setTimeout callbacks of one kind that are pending at a time in
\* SpecBurst.
BurstTimers == 2

\* The largest deck of SpecShuffle.
ShuffleCards == 3

\* Most submitScore calls that are in flight at a time.
MaxScoreCalls == 2

\* Most updateMnemonic calls that are in flight at a time.
MaxMnemonicCalls == 1

\* Most calls of onCrash that are counted in one session.
MaxCrashCalls == 2

\* Most animation frames with gravity that one RocketGame instance draws.
MaxFrames == 2

\* The same, where the rocket is left to fall to the ground (SpecLong).
LongFrames == 64

\* The deck of the Rocket sessions of SpecRocket.
RocketCards == 5

(* -------------------------- strings (JS) ------------------------------ *)

\* String.prototype.toLowerCase on one character of the model's alphabet.
LowerChar(c) ==
    CASE c = "A" -> "a"
      [] c = "B" -> "b"
      [] OTHER -> c

\* String.prototype.toLowerCase.
ToLowerCase(s) == [i \in 1..Len(s) |-> LowerChar(s[i])]

RECURSIVE TrimStart(_)
TrimStart(s) ==
    IF s # <<>> /\ Head(s) = " " THEN TrimStart(Tail(s)) ELSE s

RECURSIVE TrimEnd(_)
TrimEnd(s) ==
    IF s # <<>> /\ s[Len(s)] = " " THEN TrimEnd(SubSeq(s, 1, Len(s) - 1)) ELSE s

\* String.prototype.trim.
Trim(s) == TrimEnd(TrimStart(s))

RECURSIVE SplitFirst(_)
\* s.split(' ')[0]: the part of s before its first space.
SplitFirst(s) ==
    IF s = <<>> \/ Head(s) = " " THEN <<>> ELSE <<Head(s)>> \o SplitFirst(Tail(s))

\* Array.prototype.includes on an array of strings.
Includes(arr, x) == \E i \in 1..Len(arr) : arr[i] = x

(* ----------------------------- the deck ------------------------------- *)

\* The flashcards prop, filtered to the cards with a photo: card k of the
\* deck (0-based).  Even cards are "A B" with nickname "B", odd cards are
\* " B" (a stored name with a leading blank) with nickname "a".
PracticeCard(k) ==
    IF k % 2 = 0
    THEN [name |-> <<"A", " ", "B">>, nicknames |-> << <<"B">> >>]
    ELSE [name |-> <<" ", "B">>, nicknames |-> << <<"a">> >>]

\* What the user types into the guess field and the correction field.
Typed == { <<"a", " ">>, <<"b">>, <<"A", " ", "b">> }

\* Values Math.random() returns, in thousandths.
RandomValues == {0, 999}

\* The same on a finer grid (SpecShuffle): for every i below 6 each j in
\* 0..i is Math.floor(r * (i + 1)) of one of them.
RandomFine == {0, 200, 400, 600, 800, 999}

GameModes == {"classic", "timed", "rocket"}
Difficulties == {"first", "full"}

\* startTime = null
NoTime == 0

(* ----------------------------- the state ------------------------------ *)

VARIABLES
    numCards,            \* practiceCards.length
    currentIndex,
    guess,
    feedback,            \* "none" is null
    showAnswer,
    stats,
    shuffledIndices,
    difficulty,
    correctionInput,
    correctionComplete,
    gameMode,
    startTime,
    elapsedTime,
    rocketHeight,
    rocketCrashed,
    rocketBoosting,
    now,                 \* Date.now()
    boostTimers,         \* pending setTimeout(() => setRocketBoosting(false), 500)
    advanceTimers,       \* pending setTimeout(<auto-advance>, 800)
    mounted,             \* a RocketGame instance exists, its frame loop runs
    currentHeight,       \* currentHeightRef.current, in tenths of a percent
    lastBoosting,        \* lastBoostingRef.current
    loop,                \* the props captured by the running render closure
    gravityFrames,       \* frames of this instance that applied gravity
    animationFrames,     \* closures of the requested animation frames, oldest first
    visualHeight,        \* visualHeightRef.current, in tenths of a percent
    crashCalls,          \* calls of onCrash since the session started
    uploadPc,            \* where the call of uploadPhoto is: "idle", "uploading",
                         \* "waiting", "returned", "thrown"
    uploadAttempt,       \* attempt, the loop variable
    uploadErrors,        \* the uploadError of every attempt made so far
    uploadWaits,         \* the delays, in ms, of the backoff timers set so far
    uploadResult,        \* what the call returned or threw
    isPracticing,        \* SharedDeckPage's flag; PracticeView is practice throughout
    submitScoreGiven,    \* the submitScore prop is passed
    scoreSubmitted,
    submittingScore,
    scoreCalls,          \* payloads of the submitScore calls in flight
    saving,
    mnemonicCalls,       \* updateMnemonic calls in flight
    editingPracticeMnemonic

\* The call of useFlashcards.uploadPhoto.
uploadVars == <<uploadPc, uploadAttempt, uploadErrors, uploadWaits, uploadResult>>

parentVars == <<uploadVars, isPracticing, numCards, currentIndex, guess, feedback, showAnswer, stats,
                shuffledIndices, difficulty, correctionInput, correctionComplete,
                gameMode, startTime, elapsedTime, rocketHeight, rocketCrashed,
                rocketBoosting, now, boostTimers, advanceTimers, crashCalls,
                submitScoreGiven, scoreSubmitted, submittingScore, scoreCalls,
                saving, mnemonicCalls, editingPracticeMnemonic>>

\* The state of the calls to the collaborators (submitScore, updateMnemonic)
\* and of the mnemonic editor.
scoreVars == <<submitScoreGiven, scoreSubmitted, submittingScore, scoreCalls>>

mnemonicVars == <<saving, mnemonicCalls>>

asyncVars == <<scoreVars, mnemonicVars, editingPracticeMnemonic>>

rocketGameVars == <<mounted, currentHeight, lastBoosting, loop, gravityFrames,
                    animationFrames, visualHeight>>

vars == <<parentVars, rocketGameVars>>

\* The state of PracticeView that a frame of RocketGame cannot touch.
parentVarsButCrash == <<uploadVars, isPracticing, numCards, currentIndex, guess, feedback, showAnswer, stats,
                        shuffledIndices, difficulty, correctionInput,
                        correctionComplete, gameMode, startTime, elapsedTime,
                        rocketBoosting, now, boostTimers, advanceTimers>>

\* The state of the page apart from the flag, the calls and the upload.
viewVarsOfPage == <<numCards, currentIndex, guess, feedback, showAnswer, stats,
                    shuffledIndices, difficulty, correctionInput, correctionComplete,
                    gameMode, startTime, elapsedTime, rocketHeight, rocketCrashed,
                    rocketBoosting, now, boostTimers, advanceTimers, crashCalls>>

\* The state of PracticeView other than that of its collaborators' calls.
viewVars == <<uploadVars, isPracticing, numCards, currentIndex, guess, feedback, showAnswer, stats,
              shuffledIndices, difficulty, correctionInput, correctionComplete,
              gameMode, startTime, elapsedTime, rocketHeight, rocketCrashed,
              rocketBoosting, now, boostTimers, advanceTimers, crashCalls>>


(* ------------------------- derived values ----------------------------- *)

\* isSessionComplete with the deck counted one card too long; C1 tells the
\* two apart.
isSessionComplete_OneMore ==
    (stats.total > 0 /\ stats.total > numCards) \/ rocketCrashed

\* isSessionComplete
isSessionComplete ==
    (stats.total > 0 /\ stats.total >= numCards) \/ rocketCrashed

\* A practice screen that is rendered for an empty deck too; C13 tells it
\* from PracticeScreen.
PracticeScreen_EmptyDeckToo == ~isSessionComplete

\* The active practice screen is rendered: cards exist and the session is
\* not complete (the empty-state and the completion screens return early).
PracticeScreen == isPracticing /\ numCards > 0 /\ ~isSessionComplete

\* currentCoworker
ActualIndex(order, idx) == IF Len(order) > 0 THEN order[idx + 1] ELSE idx

currentCoworker == PracticeCard(ActualIndex(shuffledIndices, currentIndex))

\* getTargetName
getTargetName ==
    LET fullName == Trim(currentCoworker.name)
        firstName == SplitFirst(fullName)
    IN  IF difficulty = "first" THEN firstName ELSE fullName

\* checkCorrection
checkCorrection(input) == Trim(ToLowerCase(input)) = ToLowerCase(getTargetName)

\* The classification checkGuess makes of the guess field.
GuessTarget(card, diff) ==
    LET fullName == Trim(ToLowerCase(card.name))
        firstName == SplitFirst(fullName)
    IN  IF diff = "first" THEN firstName ELSE fullName

\* Nickname matching attempted at every difficulty; C2 tells it from
\* NicknameAllowed.
NicknameAllowed_Always(diff) == diff \in Difficulties

NicknameAllowed(diff) == diff = "first"

Classify(g, card, diff) ==
    LET guessLower == Trim(ToLowerCase(g))
        nicknames == [i \in 1..Len(card.nicknames) |-> ToLowerCase(card.nicknames[i])]
        isCorrect == guessLower = GuessTarget(card, diff)
        isNicknameMatch ==
            ~isCorrect /\ NicknameAllowed(diff) /\ Includes(nicknames, guessLower)
    IN  IF isCorrect THEN "correct"
        ELSE IF isNicknameMatch THEN "nickname"
        ELSE "incorrect"

(* --------------------------- shuffleCards ------------------------------ *)

\* An exchange that only copies one way; C12 tells it from Swap.
Swap_Copy(seq, a, b) == [seq EXCEPT ![a] = seq[b]]

Swap(seq, a, b) == [seq EXCEPT ![a] = seq[b], ![b] = seq[a]]

RECURSIVE FisherYatesLoop(_, _, _)
\* The loop of shuffleCards from (0-based) position i down to 1; r[i] is the
\* value Math.random() returns in iteration i.
FisherYatesLoop(indices, i, r) ==
    IF i <= 0 THEN indices
    ELSE LET j == (r[i] * (i + 1)) \div 1000
         IN  FisherYatesLoop(Swap(indices, i + 1, j + 1), i - 1, r)

FisherYates(n, r) == FisherYatesLoop([k \in 1..n |-> k - 1], n - 1, r)

(* ------------------------ RocketGame (component) ----------------------- *)

\* GAME constants; the two multipliers are in tenths (2.5 and 1.0).
GRAVITY_RATE == 8
BASE_BOOST == 20
BOOST_MULTIPLIER_MAX == 25
BOOST_MULTIPLIER_MIN == 10
LERP_SPEED_UP == 8
LERP_SPEED_DOWN == 12
STARTING_ALTITUDE == 50

\* PracticeView's altitude arithmetic, in percent.
InitialRocketHeight == 50
CorrectStep == 20
IncorrectPenalty == 15
CeilingHeight == 100

\* A percentage as a fixed-point altitude.
Tenths(p) == p * 10

Min(a, b) == IF a < b THEN a ELSE b
Max(a, b) == IF a > b THEN a ELSE b

\* Gaps between two animation frames, in ms.
FrameGaps == {100}

\* deltaTime of a frame, in ms, from the time since the previous frame.
ClampDelta(raw) == IF raw > 100 THEN 16 ELSE raw

\* GAME.GRAVITY_RATE * deltaTime, in tenths of a percent.
GravityLoss(dt) == (GRAVITY_RATE * dt * 10) \div 1000

\* GAME.BASE_BOOST * boostMultiplier at altitude h, in tenths of a percent.
\* A boost of BASE_BOOST at every altitude.
BoostAmount_Flat(h) == Tenths(BASE_BOOST)

BoostAmount(h) ==
    (BASE_BOOST * (BOOST_MULTIPLIER_MAX * 1000
                   - h * (BOOST_MULTIPLIER_MAX - BOOST_MULTIPLIER_MIN))) \div 1000

\* gravityActive without the test of showAnswer.
gravityActive_WhileAnswerShown ==
    gameMode = "rocket" /\ ~rocketCrashed /\ ~isSessionComplete

\* gravityActive
gravityActive ==
    gameMode = "rocket" /\ ~showAnswer /\ ~rocketCrashed /\ ~isSessionComplete

\* The props PracticeView passes to <RocketGame>.
Props ==
    [rocketHeight |-> rocketHeight,
     boosting |-> rocketBoosting,
     crashed |-> rocketCrashed,
     coworkerPhoto |-> ActualIndex(shuffledIndices, currentIndex),
     gravityActive |-> gravityActive]

NoProps ==
    [rocketHeight |-> 0, boosting |-> FALSE, crashed |-> FALSE,
     coworkerPhoto |-> 0, gravityActive |-> FALSE]

\* <RocketGame> is part of the rendered tree.
ShouldMount == gameMode = "rocket" /\ PracticeScreen

RG == [mounted |-> mounted, height |-> currentHeight,
       lastBoosting |-> lastBoosting, loop |-> loop, gravityFrames |-> gravityFrames,
       frames |-> animationFrames, visual |-> visualHeight]

NoRocketGame ==
    [mounted |-> FALSE, height |-> 0, lastBoosting |-> FALSE, loop |-> NoProps,
     gravityFrames |-> 0, frames |-> <<>>, visual |-> 0]

\* A boost test on the level of the flag; C9 tells it from BoostEdge.
BoostEdge_Level(boosting, last) == boosting

\* The edge test of the boost: the closure's boosting against lastBoostingRef.
BoostEdge(boosting, last) == boosting /\ ~last

\* The value render() leaves in lastBoostingRef.
NextLastBoosting(boosting, last) == boosting

\* One call of render(): gravity, crash detection, boost edge detection.
\* p is the closure's props, dt the clamped deltaTime in ms.
GravityOn(p) == p.gravityActive /\ ~p.crashed

Frame(h, last, p, dt) ==
    LET gravity == GravityOn(p)
        h1 == IF gravity THEN h - GravityLoss(dt) ELSE h
        crash == gravity /\ h1 <= 0
        h2 == IF crash THEN 0 ELSE h1
        h3 == IF BoostEdge(p.boosting, last)
              THEN Min(Tenths(CeilingHeight), h2 + BoostAmount(h2))
              ELSE h2
    IN  [height |-> h3, lastBoosting |-> NextLastBoosting(p.boosting, last),
         crash |-> crash]

\* The reset-height effect, run when rocketHeight changed (and on mount).
ResetHeight(h, rh) ==
    IF rh = STARTING_ALTITUDE /\ h < Tenths(10) THEN Tenths(STARTING_ALTITUDE) ELSE h

\* What the reset-height effect leaves in visualHeightRef, h being the
\* altitude it found in currentHeightRef.
ResetVisual(v, h, rh) ==
    IF rh = STARTING_ALTITUDE /\ h < Tenths(10) THEN Tenths(STARTING_ALTITUDE) ELSE v

Abs(x) == IF x < 0 THEN -x ELSE x

\* x / 1000 with the fraction dropped.
Thousandth(x) == IF x < 0 THEN -((-x) \div 1000) ELSE x \div 1000

\* The smoothing of render(): visualHeightRef after a frame of dt ms that
\* left the altitude h in currentHeightRef (tenths; 0.1 percent is 1).
Smoothed(v, h, dt) ==
    LET heightDiff == h - v
        lerpSpeed == IF heightDiff > 0 THEN LERP_SPEED_UP ELSE LERP_SPEED_DOWN
    IN  IF Abs(heightDiff) > 1
        THEN v + Thousandth(heightDiff * lerpSpeed * dt)
        ELSE h

\* render() with gravity, crash detection and boost working on the
\* smoothed altitude instead of currentHeightRef.
Render_OnVisual(h, v, last, p, dt) ==
    LET f == Frame(v, last, p, dt)
    IN  [height |-> f.height, visual |-> Smoothed(v, f.height, dt),
         lastBoosting |-> f.lastBoosting, crash |-> f.crash]

\* One call of render() with currentHeightRef = h, visualHeightRef = v and
\* lastBoostingRef = last: what it leaves in the three refs and whether it
\* called onCrash.
Render(h, v, last, p, dt) ==
    LET f == Frame(h, last, p, dt)
    IN  [height |-> f.height, visual |-> Smoothed(v, f.height, dt),
         lastBoosting |-> f.lastBoosting, crash |-> f.crash]

\* The sequence s without its i-th element.
RemoveAt(s, i) == SubSeq(s, 1, i - 1) \o SubSeq(s, i + 1, Len(s))

\* A cleanup of the animation effect that cancels nothing.
Cancelled_Nothing(frames) == frames

\* The cleanup of the animation effect: cancelAnimationFrame of
\* animationRef.current, the frame requested last.
Cancelled(frames) == IF frames = <<>> THEN frames ELSE RemoveAt(frames, Len(frames))

\* The effects of a render with props p: the animation effect is cleaned up
\* and started again (render() is called at once, deltaTime 0) when one of
\* its dependencies changed.
Committed(rg, should, p) ==
    IF ~should
    THEN [NoRocketGame EXCEPT
              !.frames = IF rg.mounted THEN Cancelled(rg.frames) ELSE rg.frames]
    ELSE IF ~rg.mounted
    THEN LET h == ResetHeight(Tenths(p.rocketHeight), p.rocketHeight)
             v == ResetVisual(Tenths(p.rocketHeight), Tenths(p.rocketHeight),
                              p.rocketHeight)
             f == Render(h, v, FALSE, p, 0)
         IN  [mounted |-> TRUE, height |-> f.height,
              visual |-> f.visual,
              lastBoosting |-> f.lastBoosting, loop |-> p, gravityFrames |-> 0,
              frames |-> Append(rg.frames, p)]
    ELSE IF p = rg.loop THEN rg
    ELSE LET h == IF p.rocketHeight # rg.loop.rocketHeight
                  THEN ResetHeight(rg.height, p.rocketHeight)
                  ELSE rg.height
             v == IF p.rocketHeight # rg.loop.rocketHeight
                  THEN ResetVisual(rg.visual, rg.height, p.rocketHeight)
                  ELSE rg.visual
             f == Render(h, v, rg.lastBoosting, p, 0)
         IN  [mounted |-> TRUE, height |-> f.height,
              visual |-> f.visual,
              lastBoosting |-> f.lastBoosting, loop |-> p,
              gravityFrames |-> rg.gravityFrames,
              frames |-> Append(Cancelled(rg.frames), p)]

SetRocketGame(r) ==
    /\ mounted' = r.mounted
    /\ currentHeight' = r.height
    /\ lastBoosting' = r.lastBoosting
    /\ loop' = r.loop
    /\ gravityFrames' = r.gravityFrames
    /\ animationFrames' = r.frames
    /\ visualHeight' = r.visual

\* A discrete event: what is pending is flushed, the handler runs, and the
\* render it causes is committed with its effects before the next event.
Discrete ==
    \E flushed \in {Committed(RG, ShouldMount, Props)} :
        \E r \in {Committed(flushed, ShouldMount', Props')} : SetRocketGame(r)

\* The object the auto-submit effect passes to submitScore.
ScorePayload ==
    [gameMode |-> gameMode, score |-> stats.correct, total |-> stats.total,
     timeMs |-> IF gameMode = "timed" THEN elapsedTime ELSE NoTime]

\* The auto-submit effect in the commit of a render in which the handler
\* left scoreSubmitted = sub and submittingScore = ing: when the session is
\* complete, submitScore is given and neither flag is set, it sets
\* submittingScore and calls submitScore.
AutoSubmit(sub, ing) ==
    LET run == isSessionComplete' /\ submitScoreGiven /\ ~sub /\ ~ing
    IN  /\ run => Len(scoreCalls) < MaxScoreCalls
        /\ scoreSubmitted' = sub
        /\ submittingScore' = (ing \/ run)
        /\ scoreCalls' = IF run THEN Append(scoreCalls, ScorePayload') ELSE scoreCalls
        /\ UNCHANGED submitScoreGiven

(* ------------------------ PracticeView handlers ------------------------ *)

\* resetCardState
resetCardState ==
    /\ guess' = <<>>
    /\ feedback' = "none"
    /\ showAnswer' = FALSE
    /\ correctionInput' = <<>>
    /\ correctionComplete' = FALSE
    /\ editingPracticeMnemonic' = FALSE

\* nextCard stepping past the last card instead of wrapping round.
nextCard_NoWrap ==
    /\ resetCardState
    /\ currentIndex' = currentIndex + 1

\* nextCard
nextCard ==
    /\ resetCardState
    /\ currentIndex' = (currentIndex + 1) % numCards

\* shuffleCards, with Math.random() drawing from randoms
shuffleCardsFrom(randoms) ==
    /\ currentIndex' = 0
    /\ resetCardState
    /\ \E r \in [1..(numCards - 1) -> randoms] :
           shuffledIndices' = FisherYates(numCards, r)

shuffleCards == shuffleCardsFrom(RandomValues)

\* A restart that leaves the altitude where it is; C10 tells it from
\* restartPractice.
restartPractice_KeepsAltitude ==
    /\ stats' = [correct |-> 0, total |-> 0]
    /\ startTime' = NoTime
    /\ elapsedTime' = 0
    /\ rocketHeight' = rocketHeight
    /\ rocketCrashed' = FALSE
    /\ rocketBoosting' = FALSE
    /\ crashCalls' = 0
    /\ scoreSubmitted' = FALSE
    /\ submittingScore' = FALSE
    /\ shuffleCards

\* restartPractice
restartPractice ==
    /\ stats' = [correct |-> 0, total |-> 0]
    /\ startTime' = NoTime
    /\ elapsedTime' = 0
    /\ rocketHeight' = InitialRocketHeight
    /\ rocketCrashed' = FALSE
    /\ rocketBoosting' = FALSE
    /\ crashCalls' = 0
    /\ scoreSubmitted' = FALSE
    /\ submittingScore' = FALSE
    /\ shuffleCards

\* Stats that count every submitted guess as correct; C3 tells them from
\* ScoredStats.
ScoredStats_AllCorrect(st, result) ==
    [correct |-> st.correct + 1, total |-> st.total + 1]

\* The stats checkGuess sets for a classification.
ScoredStats(st, result) ==
    IF result \in {"correct", "nickname"}
    THEN [correct |-> st.correct + 1, total |-> st.total + 1]
    ELSE [st EXCEPT !.total = st.total + 1]

\* The altitude of checkGuess without the floor at 0; C7 tells it from
\* ScoredHeight.
ScoredHeight_NoFloor(h, result) ==
    IF result \in {"correct", "nickname"}
    THEN Min(CeilingHeight, h + CorrectStep)
    ELSE h - IncorrectPenalty

\* The altitude checkGuess sets in Rocket mode.
ScoredHeight(h, result) ==
    IF result \in {"correct", "nickname"}
    THEN Min(CeilingHeight, h + CorrectStep)
    ELSE Max(0, h - IncorrectPenalty)

\* A timer start that every Timed guess sets again; C11 tells it from
\* StartedAt.
StartedAt_EveryGuess(mode, st, t) == IF mode = "timed" THEN t ELSE st

\* The startTime checkGuess leaves: Date.now() for the first guess of a
\* Timed session.
StartedAt(mode, st, t) == IF mode = "timed" /\ st = NoTime THEN t ELSE st

\* The user types v into the guess field (onChange: setGuess) and submits
\* it with the Check button or Enter: checkGuess.  The button is disabled
\* and Enter is ignored while the field is empty.
CheckGuessWithin(v, timers) ==
    /\ PracticeScreen /\ ~showAnswer
    /\ v # <<>>
    /\ guess' = v
    /\ LET result == Classify(v, currentCoworker, difficulty)
           right == result \in {"correct", "nickname"}
       IN  /\ (gameMode = "rocket" /\ right) => advanceTimers < timers
           /\ startTime' = StartedAt(gameMode, startTime, now)
           /\ correctionInput' = <<>>
           /\ correctionComplete' = FALSE
           /\ feedback' = result
           /\ stats' = ScoredStats(stats, result)
           /\ IF gameMode = "rocket"
              THEN /\ rocketHeight' = ScoredHeight(rocketHeight, result)
                   /\ rocketBoosting' = (right \/ rocketBoosting)
                   /\ boostTimers' = IF right THEN boostTimers + 1 ELSE boostTimers
                   /\ advanceTimers' = IF right THEN advanceTimers + 1 ELSE advanceTimers
                   /\ rocketCrashed' =
                          (rocketCrashed \/ (~right /\ rocketHeight' <= 0))
              ELSE UNCHANGED <<rocketHeight, rocketBoosting, boostTimers,
                               advanceTimers, rocketCrashed>>
           /\ showAnswer' = TRUE
    /\ UNCHANGED <<uploadVars, isPracticing, numCards, currentIndex, shuffledIndices, difficulty,
                   gameMode, elapsedTime, now, crashCalls>>
    /\ Discrete
    /\ AutoSubmit(scoreSubmitted, submittingScore)
    /\ UNCHANGED <<mnemonicVars, editingPracticeMnemonic>>

CheckGuess(v) == CheckGuessWithin(v, MaxTimers)

SubmitGuess == \E v \in Typed : CheckGuess(v)

\* The same, where a second correct Rocket answer may be given while the
\* timers of the one before are pending.
SubmitGuessBurst == \E v \in Typed : CheckGuessWithin(v, BurstTimers)

\* What the Reveal button and the R shortcut do.
reveal ==
    /\ showAnswer' = TRUE
    /\ feedback' = "incorrect"
    /\ correctionInput' = <<>>
    /\ correctionComplete' = FALSE
    /\ stats' = [stats EXCEPT !.total = stats.total + 1]
    /\ UNCHANGED <<uploadVars, isPracticing, numCards, currentIndex, guess, shuffledIndices, difficulty,
                   gameMode, startTime, elapsedTime, rocketHeight, rocketCrashed,
                   rocketBoosting, now, boostTimers, advanceTimers, crashCalls>>
    /\ Discrete
    /\ AutoSubmit(scoreSubmitted, submittingScore)
    /\ UNCHANGED <<mnemonicVars, editingPracticeMnemonic>>

\* onClick of the Reveal button
RevealButton ==
    /\ PracticeScreen /\ ~showAnswer
    /\ reveal

\* handleKeyDown, key R (the focus is outside the input fields)
RevealKey ==
    /\ PracticeScreen /\ ~showAnswer
    /\ reveal

\* The Next Card button disabled as well while a memory tip is being saved.
NextCardEnabled_NotWhileSaving ==
    ~(feedback = "incorrect" /\ ~correctionComplete /\ gameMode = "classic") /\ ~saving

\* The Next Card button is not disabled.
NextCardEnabled ==
    ~(feedback = "incorrect" /\ ~correctionComplete /\ gameMode = "classic")

\* handleKeyDown accepts Enter.
EnterAccepted ==
    feedback = "correct" \/ feedback = "nickname" \/ correctionComplete

advance ==
    /\ nextCard
    /\ UNCHANGED <<uploadVars, isPracticing, numCards, stats, shuffledIndices, difficulty, gameMode,
                   startTime, elapsedTime, rocketHeight, rocketCrashed,
                   rocketBoosting, now, boostTimers, advanceTimers, crashCalls>>
    /\ Discrete
    /\ UNCHANGED <<scoreVars, mnemonicVars>>

\* onClick of the Next Card button
NextCardButton ==
    /\ PracticeScreen /\ showAnswer
    /\ NextCardEnabled
    /\ advance

\* handleKeyDown, key Enter (the focus is outside the input fields)
EnterKey ==
    /\ PracticeScreen /\ showAnswer
    /\ EnterAccepted
    /\ advance

\* The correction field and the skip button are rendered.
CorrectionShown == showAnswer /\ feedback = "incorrect" /\ gameMode = "classic"

\* onKeyDown of the correction field, key Enter
CorrectionEnter ==
    /\ PracticeScreen /\ CorrectionShown
    /\ correctionComplete
    /\ advance

\* onClick of the skip button
Skip ==
    /\ PracticeScreen /\ CorrectionShown
    /\ advance

\* handleCorrectionChange
TypeCorrection ==
    /\ PracticeScreen /\ CorrectionShown
    /\ \E v \in Typed \cup {<<>>} :
           /\ correctionInput' = v
           /\ correctionComplete' = checkCorrection(v)
    /\ UNCHANGED <<uploadVars, isPracticing, numCards, currentIndex, guess, feedback, showAnswer, stats,
                   shuffledIndices, difficulty, gameMode, startTime, elapsedTime,
                   rocketHeight, rocketCrashed, rocketBoosting, now,
                   boostTimers, advanceTimers, crashCalls>>
    /\ Discrete
    /\ UNCHANGED asyncVars

\* onClick of the Shuffle Cards button
ShuffleButton ==
    /\ PracticeScreen
    /\ shuffleCards
    /\ UNCHANGED <<uploadVars, isPracticing, numCards, stats, difficulty, gameMode, startTime, elapsedTime,
                   rocketHeight, rocketCrashed, rocketBoosting, now,
                   boostTimers, advanceTimers, crashCalls>>
    /\ Discrete
    /\ UNCHANGED <<scoreVars, mnemonicVars>>

\* onChange of the difficulty select
SetDifficulty ==
    /\ PracticeScreen
    /\ \E d \in Difficulties : difficulty' = d
    /\ UNCHANGED <<uploadVars, isPracticing, numCards, currentIndex, guess, feedback, showAnswer, stats,
                   shuffledIndices, correctionInput, correctionComplete,
                   gameMode, startTime, elapsedTime, rocketHeight, rocketCrashed,
                   rocketBoosting, now, boostTimers, advanceTimers, crashCalls>>
    /\ Discrete
    /\ UNCHANGED asyncVars

\* handleGameModeChange: a button of the game mode selector
GameModeChange ==
    /\ PracticeScreen
    /\ \E newMode \in GameModes :
           IF newMode # gameMode
           THEN /\ gameMode' = newMode
                /\ restartPractice
                /\ UNCHANGED <<uploadVars, isPracticing, numCards, difficulty, now, boostTimers, advanceTimers,
                               submitScoreGiven, scoreCalls, mnemonicVars>>
           ELSE UNCHANGED parentVars
    /\ Discrete

\* onClick of Try Again on the completion screen
TryAgain ==
    /\ isPracticing /\ numCards > 0 /\ isSessionComplete
    /\ restartPractice
    /\ UNCHANGED <<uploadVars, isPracticing, numCards, difficulty, gameMode, now, boostTimers, advanceTimers>>
    /\ Discrete
    /\ UNCHANGED <<submitScoreGiven, scoreCalls, mnemonicVars>>

(* ------------------- submitScore and updateMnemonic -------------------- *)

\* A submitScore call returns: setScoreSubmitted(true), then the finally
\* block's setSubmittingScore(false). The effect runs again and returns early.
ScoreResolves ==
    /\ \E i \in 1..Len(scoreCalls) : scoreCalls' = RemoveAt(scoreCalls, i)
    /\ scoreSubmitted' = TRUE
    /\ submittingScore' = FALSE
    /\ UNCHANGED <<viewVars, rocketGameVars, submitScoreGiven,
                   mnemonicVars, editingPracticeMnemonic>>

\* A submitScore call throws: the catch block logs, the finally block does
\* setSubmittingScore(false), and the effect, which depends on
\* submittingScore, runs again with scoreSubmitted still false.
ScoreFails ==
    /\ \E i \in 1..Len(scoreCalls) :
           LET rest  == RemoveAt(scoreCalls, i)
               again == isSessionComplete /\ submitScoreGiven /\ ~scoreSubmitted
           IN  /\ submittingScore' = again
               /\ scoreCalls' = IF again THEN Append(rest, ScorePayload) ELSE rest
    /\ UNCHANGED <<viewVars, rocketGameVars, submitScoreGiven,
                   scoreSubmitted, mnemonicVars, editingPracticeMnemonic>>

\* onClick of Edit (the card has a memory tip) or of Add Tip
EditMnemonic ==
    /\ PracticeScreen /\ showAnswer /\ ~editingPracticeMnemonic
    /\ editingPracticeMnemonic' = TRUE
    /\ UNCHANGED <<viewVars, rocketGameVars, scoreVars,
                   mnemonicVars>>

\* onClick of Cancel in the memory tip editor
CancelMnemonic ==
    /\ PracticeScreen /\ showAnswer /\ editingPracticeMnemonic
    /\ editingPracticeMnemonic' = FALSE
    /\ UNCHANGED <<viewVars, rocketGameVars, scoreVars,
                   mnemonicVars>>

\* handleSavePracticeMnemonic up to its await, with a non-blank text
SaveMnemonic ==
    /\ PracticeScreen /\ showAnswer /\ editingPracticeMnemonic /\ ~saving
    /\ mnemonicCalls < MaxMnemonicCalls
    /\ saving' = TRUE
    /\ mnemonicCalls' = mnemonicCalls + 1
    /\ UNCHANGED <<viewVars, rocketGameVars, scoreVars,
                   editingPracticeMnemonic>>

\* handleSavePracticeMnemonic after updateMnemonic returned
MnemonicResolves ==
    /\ mnemonicCalls > 0
    /\ mnemonicCalls' = mnemonicCalls - 1
    /\ editingPracticeMnemonic' = FALSE
    /\ saving' = FALSE
    /\ UNCHANGED <<viewVars, rocketGameVars, scoreVars>>

\* handleSavePracticeMnemonic after updateMnemonic threw
MnemonicFails ==
    /\ mnemonicCalls > 0
    /\ mnemonicCalls' = mnemonicCalls - 1
    /\ saving' = FALSE
    /\ UNCHANGED <<viewVars, rocketGameVars, scoreVars,
                   editingPracticeMnemonic>>

(* ---------------------- useFlashcards.uploadPhoto ---------------------- *)

\* The default of the maxRetries parameter; every caller leaves it alone.
maxRetries == 3

\* The errors an upload attempt can come back with.
UploadErrors == {"e1", "e2", "e3", "e4"}

\* 2 to the power n.
RECURSIVE Pow2(_)
Pow2(n) == IF n = 0 THEN 1 ELSE 2 * Pow2(n - 1)

\* A backoff of one second after every failed attempt.
Backoff_Constant(attempt) == 1000

\* 1000 * Math.pow(2, attempt - 1)
Backoff(attempt) == 1000 * Pow2(attempt - 1)

\* No call of uploadPhoto has been made.
UploadIdle ==
    /\ uploadPc = "idle"
    /\ uploadAttempt = 0
    /\ uploadErrors = <<>>
    /\ uploadWaits = <<>>
    /\ uploadResult = "none"

\* uploadPhoto(file) up to its first await: null without a user or a file,
\* otherwise the first attempt is under way.
UploadCall ==
    /\ uploadPc = "idle"
    /\ \E user \in BOOLEAN, file \in BOOLEAN :
           IF ~user \/ ~file
           THEN /\ uploadPc' = "returned"
                /\ uploadResult' = "null"
                /\ UNCHANGED uploadAttempt
           ELSE /\ uploadPc' = "uploading"
                /\ uploadAttempt' = 1
                /\ UNCHANGED uploadResult
    /\ UNCHANGED <<uploadErrors, uploadWaits>>
    /\ UNCHANGED <<isPracticing, viewVarsOfPage, asyncVars, rocketGameVars>>

\* The upload of this attempt came back without an error: return publicUrl.
UploadSucceeds ==
    /\ uploadPc = "uploading"
    /\ uploadPc' = "returned"
    /\ uploadResult' = "publicUrl"
    /\ UNCHANGED <<uploadAttempt, uploadErrors, uploadWaits>>
    /\ UNCHANGED <<isPracticing, viewVarsOfPage, asyncVars, rocketGameVars>>

\* The upload of this attempt came back with uploadError: it becomes
\* lastError, and either the backoff timer is set or, after the loop,
\* lastError is thrown.
UploadFails ==
    /\ uploadPc = "uploading"
    /\ \E e \in UploadErrors :
           /\ uploadErrors' = Append(uploadErrors, e)
           /\ IF uploadAttempt < maxRetries
              THEN /\ uploadPc' = "waiting"
                   /\ uploadWaits' = Append(uploadWaits, Backoff(uploadAttempt))
                   /\ UNCHANGED uploadResult
              ELSE /\ uploadPc' = "thrown"
                   /\ uploadResult' = e
                   /\ UNCHANGED uploadWaits
    /\ UNCHANGED uploadAttempt
    /\ UNCHANGED <<isPracticing, viewVarsOfPage, asyncVars, rocketGameVars>>

\* The backoff timer fires: attempt++ and the next upload is under way.
BackoffElapses ==
    /\ uploadPc = "waiting"
    /\ uploadPc' = "uploading"
    /\ uploadAttempt' = uploadAttempt + 1
    /\ UNCHANGED <<uploadErrors, uploadWaits, uploadResult>>
    /\ UNCHANGED <<isPracticing, viewVarsOfPage, asyncVars, rocketGameVars>>

(* --------------------------- SharedDeckPage ---------------------------- *)

\* SharedDeckPage.startPractice (Start Practice, or the Practice tab)
StartPractice ==
    /\ ~isPracticing /\ numCards > 0
    /\ isPracticing' = TRUE
    /\ stats' = [correct |-> 0, total |-> 0]
    /\ startTime' = NoTime
    /\ elapsedTime' = 0
    /\ rocketHeight' = InitialRocketHeight
    /\ rocketCrashed' = FALSE
    /\ crashCalls' = 0
    /\ shuffleCards
    /\ UNCHANGED <<uploadVars, numCards, difficulty, gameMode, rocketBoosting, now,
                   boostTimers, advanceTimers, scoreVars, mnemonicVars>>
    /\ Discrete

\* onClick of the back arrow of the practice screen and of Back to Deck on
\* the completion screen: setIsPracticing(false)
BackToDeck ==
    /\ isPracticing /\ numCards > 0
    /\ isPracticing' = FALSE
    /\ UNCHANGED <<uploadVars, numCards, currentIndex, guess, feedback, showAnswer, stats,
                   shuffledIndices, difficulty, correctionInput,
                   correctionComplete, gameMode, startTime, elapsedTime,
                   rocketHeight, rocketCrashed, rocketBoosting, now,
                   boostTimers, advanceTimers, crashCalls, asyncVars>>
    /\ Discrete

(* --------------------------- timers, frames ---------------------------- *)

\* setTimeout(() => setRocketBoosting(false), 500)
BoostOffTimer ==
    /\ boostTimers > 0
    /\ boostTimers' = boostTimers - 1
    /\ rocketBoosting' = FALSE
    /\ UNCHANGED <<uploadVars, isPracticing, numCards, currentIndex, guess, feedback, showAnswer, stats,
                   shuffledIndices, difficulty, correctionInput,
                   correctionComplete, gameMode, startTime, elapsedTime,
                   rocketHeight, rocketCrashed, now, advanceTimers, crashCalls>>
    /\ UNCHANGED rocketGameVars
    /\ UNCHANGED asyncVars

\* The auto-advance setTimeout(..., 800) of checkGuess; it runs after the
\* 500 ms timer that was set with it.
AutoAdvanceTimer ==
    /\ advanceTimers > 0 /\ advanceTimers > boostTimers
    /\ advanceTimers' = advanceTimers - 1
    /\ guess' = <<>>
    /\ feedback' = "none"
    /\ showAnswer' = FALSE
    /\ correctionInput' = <<>>
    /\ correctionComplete' = FALSE
    /\ currentIndex' = (currentIndex + 1) % numCards
    /\ UNCHANGED <<uploadVars, isPracticing, numCards, stats, shuffledIndices, difficulty, gameMode,
                   startTime, elapsedTime, rocketHeight, rocketCrashed,
                   rocketBoosting, now, boostTimers, crashCalls>>
    /\ UNCHANGED rocketGameVars
    /\ UNCHANGED asyncVars

\* Time passes (the clock is read in Timed mode only).
ClockAdvance ==
    /\ gameMode = "timed" /\ now < MaxClock
    /\ now' = now + 1
    /\ UNCHANGED <<uploadVars, isPracticing, numCards, currentIndex, guess, feedback, showAnswer, stats,
                   shuffledIndices, difficulty, correctionInput,
                   correctionComplete, gameMode, startTime, elapsedTime,
                   rocketHeight, rocketCrashed, rocketBoosting, boostTimers,
                   advanceTimers, crashCalls>>
    /\ UNCHANGED rocketGameVars
    /\ UNCHANGED asyncVars

\* The setInterval callback of the timer effect
IntervalTimer ==
    /\ gameMode = "timed" /\ startTime # NoTime /\ ~isSessionComplete
    /\ elapsedTime' = now - startTime
    /\ UNCHANGED <<uploadVars, isPracticing, numCards, currentIndex, guess, feedback, showAnswer, stats,
                   shuffledIndices, difficulty, correctionInput,
                   correctionComplete, gameMode, startTime, rocketHeight,
                   rocketCrashed, rocketBoosting, now, boostTimers,
                   advanceTimers, crashCalls>>
    /\ UNCHANGED rocketGameVars
    /\ UNCHANGED asyncVars

\* handleRocketCrash, called through onCrashRef
handleRocketCrash ==
    /\ rocketCrashed' = TRUE
    /\ rocketHeight' = 0
    /\ crashCalls' = crashCalls + 1

\* A requestAnimationFrame callback of the running loop: render()
Tick(limit) ==
    /\ mounted
    /\ \E i \in 1..Len(animationFrames), raw \in FrameGaps :
           \E p \in {animationFrames[i]} :
           \E f \in {Render(currentHeight, visualHeight, lastBoosting, p,
                             ClampDelta(raw))} :
               /\ GravityOn(p) => gravityFrames < limit
               /\ gravityFrames' = IF GravityOn(p) THEN gravityFrames + 1 ELSE gravityFrames
               /\ animationFrames' = Append(RemoveAt(animationFrames, i), p)
               /\ currentHeight' = f.height
               /\ visualHeight' = f.visual
               /\ lastBoosting' = f.lastBoosting
               /\ IF f.crash
                  THEN crashCalls < MaxCrashCalls /\ handleRocketCrash
                  ELSE UNCHANGED <<rocketCrashed, rocketHeight, crashCalls>>
    /\ UNCHANGED <<uploadVars, isPracticing, numCards, currentIndex, guess, feedback, showAnswer, stats,
                   shuffledIndices, difficulty, correctionInput,
                   correctionComplete, gameMode, startTime, elapsedTime,
                   rocketBoosting, now, boostTimers, advanceTimers>>
    /\ UNCHANGED <<mounted, loop>>
    /\ AutoSubmit(scoreSubmitted, submittingScore)
    /\ UNCHANGED <<mnemonicVars, editingPracticeMnemonic>>

ShortTick == Tick(MaxFrames)

\* The render scheduled by a timer or frame callback is committed: the
\* effects of RocketGame run with the new props.
CommitEffects ==
    /\ \E r \in {Committed(RG, ShouldMount, Props)} : r # RG /\ SetRocketGame(r)
    /\ UNCHANGED parentVars

(* ------------------------------ the system ----------------------------- *)

ConstructedPage(n, given, practicing) ==
    /\ numCards = n
    /\ currentIndex = 0
    /\ guess = <<>>
    /\ feedback = "none"
    /\ showAnswer = FALSE
    /\ stats = [correct |-> 0, total |-> 0]
    /\ shuffledIndices = <<>>
    /\ difficulty = "first"
    /\ correctionInput = <<>>
    /\ correctionComplete = FALSE
    /\ gameMode = "classic"
    /\ startTime = NoTime
    /\ elapsedTime = 0
    /\ rocketHeight = InitialRocketHeight
    /\ rocketCrashed = FALSE
    /\ rocketBoosting = FALSE
    /\ now = 1
    /\ boostTimers = 0
    /\ advanceTimers = 0
    /\ mounted = FALSE
    /\ currentHeight = 0
    /\ lastBoosting = FALSE
    /\ loop = NoProps
    /\ gravityFrames = 0
    /\ animationFrames = <<>>
    /\ visualHeight = 0
    /\ crashCalls = 0
    /\ submitScoreGiven = given
    /\ isPracticing = practicing
    /\ UploadIdle
    /\ scoreSubmitted = FALSE
    /\ submittingScore = FALSE
    /\ scoreCalls = <<>>
    /\ saving = FALSE
    /\ mnemonicCalls = 0
    /\ editingPracticeMnemonic = FALSE

\* PracticeView: the practice screens are what it renders.
ConstructedWith(n, given) == ConstructedPage(n, given, TRUE)

\* The view of a signed-out user: no submitScore prop.
Constructed(n) == ConstructedWith(n, FALSE)

\* PracticeView after its first render, for a deck of up to MaxCards cards.
Init == \E n \in 0..MaxCards : Constructed(n)

Next ==
    \/ SubmitGuess
    \/ RevealButton
    \/ RevealKey
    \/ NextCardButton
    \/ EnterKey
    \/ CorrectionEnter
    \/ Skip
    \/ TypeCorrection
    \/ ShuffleButton
    \/ SetDifficulty
    \/ GameModeChange
    \/ TryAgain
    \/ BoostOffTimer
    \/ AutoAdvanceTimer
    \/ ClockAdvance
    \/ IntervalTimer
    \/ ShortTick
    \/ CommitEffects

Spec == Init /\ [][Next]_vars

\* Decks of MaxCards cards and frame loops that run long enough for gravity
\* to bring the rocket down, for a user who uses the buttons but not the
\* keyboard shortcuts, the difficulty select or Shuffle Cards.
LongTick == Tick(LongFrames)

InitLong == Constructed(MaxCards)

NextLong ==
    \/ SubmitGuess
    \/ RevealButton
    \/ NextCardButton
    \/ Skip
    \/ TypeCorrection
    \/ GameModeChange
    \/ TryAgain
    \/ BoostOffTimer
    \/ AutoAdvanceTimer
    \/ ClockAdvance
    \/ IntervalTimer
    \/ LongTick
    \/ CommitEffects

SpecLong == InitLong /\ [][NextLong]_vars

\* Classic sessions on decks of up to ShuffleCards cards in which the
\* Shuffle Cards button draws from the finer grid of random values.
FineShuffle ==
    /\ PracticeScreen
    /\ shuffleCardsFrom(RandomFine)
    /\ UNCHANGED <<uploadVars, isPracticing, numCards, stats, difficulty, gameMode, startTime, elapsedTime,
                   rocketHeight, rocketCrashed, rocketBoosting, now,
                   boostTimers, advanceTimers, crashCalls>>
    /\ Discrete
    /\ UNCHANGED <<scoreVars, mnemonicVars>>

InitShuffle == \E n \in 0..ShuffleCards : Constructed(n)

NextShuffle ==
    \/ FineShuffle
    \/ SubmitGuess
    \/ TypeCorrection
    \/ Skip

SpecShuffle == InitShuffle /\ [][NextShuffle]_vars

\* PracticeView of a signed-in user: submitScore is given, and the calls of
\* submitScore and updateMnemonic return, throw or stay pending.
InitAsync == \E n \in 1..MaxCards : ConstructedWith(n, TRUE)

NextAsync ==
    \/ SubmitGuess
    \/ RevealButton
    \/ NextCardButton
    \/ Skip
    \/ TypeCorrection
    \/ GameModeChange
    \/ TryAgain
    \/ ClockAdvance
    \/ IntervalTimer
    \/ ScoreResolves
    \/ ScoreFails
    \/ EditMnemonic
    \/ CancelMnemonic
    \/ SaveMnemonic
    \/ MnemonicResolves
    \/ MnemonicFails

SpecAsync == InitAsync /\ [][NextAsync]_vars

\* The same, where every submitScore call that is in flight settles: its
\* request comes back, or it throws.
SpecAsyncFair == SpecAsync /\ WF_vars(ScoreResolves \/ ScoreFails)

\* A Rocket session on a deck of RocketCards cards with the rocket at
\* altitude h (in tenths): the state after the Rocket button was clicked in
\* the constructed view (handleGameModeChange, with Math.random() returning
\* 0 throughout its shuffle).
RocketSession(h) ==
    /\ numCards = RocketCards
    /\ currentIndex = 0
    /\ guess = <<>>
    /\ feedback = "none"
    /\ showAnswer = FALSE
    /\ stats = [correct |-> 0, total |-> 0]
    /\ shuffledIndices = FisherYates(RocketCards, [i \in 1..(RocketCards - 1) |-> 0])
    /\ difficulty = "first"
    /\ correctionInput = <<>>
    /\ correctionComplete = FALSE
    /\ gameMode = "rocket"
    /\ startTime = NoTime
    /\ elapsedTime = 0
    /\ rocketHeight = InitialRocketHeight
    /\ rocketCrashed = FALSE
    /\ rocketBoosting = FALSE
    /\ now = 1
    /\ boostTimers = 0
    /\ advanceTimers = 0
    /\ crashCalls = 0
    /\ mounted = TRUE
    /\ currentHeight = h
    /\ lastBoosting = FALSE
    /\ loop = Props
    /\ gravityFrames = 0
    /\ animationFrames = <<Props>>
    /\ visualHeight = Tenths(InitialRocketHeight)
    /\ isPracticing = TRUE
    /\ UploadIdle
    /\ submitScoreGiven = FALSE
    /\ scoreSubmitted = FALSE
    /\ submittingScore = FALSE
    /\ scoreCalls = <<>>
    /\ saving = FALSE
    /\ mnemonicCalls = 0
    /\ editingPracticeMnemonic = FALSE

\* Rocket sessions from the starting altitude, with the events of a user
\* who stays in Rocket mode, answers by guessing and goes on with Next Card
\* or the auto-advance.
InitRocket == RocketSession(Tenths(InitialRocketHeight))

NextRocket ==
    \/ SubmitGuess
    \/ NextCardButton
    \/ TryAgain
    \/ BoostOffTimer
    \/ AutoAdvanceTimer
    \/ ShortTick
    \/ CommitEffects

SpecRocket == InitRocket /\ [][NextRocket]_vars

\* Rocket sessions of a user who answers quickly: the next answer may come
\* while the 500 ms and 800 ms timers of the answer before are pending.
InitBurst == RocketSession(Tenths(InitialRocketHeight))

NextBurst ==
    \/ SubmitGuessBurst
    \/ NextCardButton
    \/ BoostOffTimer
    \/ AutoAdvanceTimer
    \/ ShortTick
    \/ CommitEffects

SpecBurst == InitBurst /\ [][NextBurst]_vars

\* Rocket sessions entered with the rocket at any altitude from the ground
\* to the ceiling, in which answers are given and the timers run, without
\* gravity frames in between: the boosts of render() over its whole domain.
InitBoost == \E h \in 0..Tenths(CeilingHeight) : RocketSession(h)

NextBoost ==
    \/ SubmitGuess
    \/ BoostOffTimer
    \/ AutoAdvanceTimer
    \/ CommitEffects

SpecBoost == InitBoost /\ [][NextBoost]_vars

\* SharedDeckPage of a visitor: the deck page is shown first, practice is
\* started from it and can be left for it; checkGuess, nextCard, the mode
\* buttons, Try Again and the timers are those of PracticeView.
InitShared == \E n \in 1..MaxCards : ConstructedPage(n, FALSE, FALSE)

NextShared ==
    \/ StartPractice
    \/ BackToDeck
    \/ SubmitGuess
    \/ NextCardButton
    \/ GameModeChange
    \/ TryAgain
    \/ BoostOffTimer
    \/ AutoAdvanceTimer
    \/ ShortTick
    \/ CommitEffects

SpecShared == InitShared /\ [][NextShared]_vars

\* One call of uploadPhoto, from the call to its return or throw, with every
\* outcome of every attempt; the upload requests come back and the backoff
\* timers fire.
InitUpload == ConstructedPage(0, FALSE, TRUE)

NextUpload ==
    \/ UploadCall
    \/ UploadSucceeds
    \/ UploadFails
    \/ BackoffElapses

SpecUpload == InitUpload /\ [][NextUpload]_vars /\ WF_vars(NextUpload)

(* ------------------------------ properties ---------------------------- *)

\* C1: in every state of a session stats.correct <= stats.total <= the
\* number of eligible cards, and when the session is complete without a
\* crash stats.total is exactly the number of eligible cards.
C1_StatsWithinDeck ==
    /\ stats.correct <= stats.total
    /\ stats.total <= numCards
    /\ (isSessionComplete /\ ~rocketCrashed) => stats.total = numCards

\* C1: a natural completion with right and wrong answers.
C1_Witness ==
    /\ isSessionComplete /\ ~rocketCrashed
    /\ stats.total = numCards
    /\ 0 < stats.correct /\ stats.correct < stats.total

\* The classification the contract of checkGuess gives: the guess trimmed
\* and lowercased against the target and the lowercased nicknames.
ContractClass(g, card, diff) ==
    LET typed == ToLowerCase(Trim(g))
        full == ToLowerCase(Trim(card.name))
        target == IF diff = "first" THEN SplitFirst(full) ELSE full
        nick == \E i \in 1..Len(card.nicknames) :
                    typed = ToLowerCase(card.nicknames[i])
    IN  IF typed = target THEN "correct"
        ELSE IF diff = "first" /\ nick THEN "nickname"
        ELSE "incorrect"

\* C2: checkGuess sets the feedback to CORRECT iff the trimmed, lowercased
\* guess equals the target (first name or full name, by difficulty),
\* otherwise to NICKNAME_MATCH iff the difficulty is FIRST_NAME and the guess
\* equals a lowercased nickname, otherwise to INCORRECT.
C2_Classification ==
    [][\A v \in Typed :
          CheckGuess(v) =>
              /\ feedback' = ContractClass(v, currentCoworker, difficulty)
              /\ (difficulty = "full" => feedback' # "nickname")]_vars

\* C2: the nickname of the card "A B" was submitted at FULL_NAME and was
\* classified INCORRECT.
C2_Witness ==
    /\ showAnswer /\ feedback = "incorrect" /\ difficulty = "full"
    /\ guess = <<"b">>
    /\ Includes(currentCoworker.nicknames, <<"B">>)
    /\ stats.total = 1 /\ correctionInput = <<>>

\* C3: a submitted guess adds 1 to stats.total and adds 1 to stats.correct
\* iff it was classified CORRECT or NICKNAME_MATCH; a reveal adds 1 to
\* stats.total only; no other step changes stats, and stats go back to 0/0
\* only by Try Again or by a switch to another game mode.
C3_StatsSteps ==
    [][/\ SubmitGuess =>
              /\ stats'.total = stats.total + 1
              /\ stats'.correct = stats.correct +
                     (IF feedback' \in {"correct", "nickname"} THEN 1 ELSE 0)
       /\ (RevealButton \/ RevealKey) =>
              /\ stats'.total = stats.total + 1
              /\ stats'.correct = stats.correct
       /\ stats' # stats =>
              \/ SubmitGuess \/ RevealButton \/ RevealKey
              \/ /\ stats' = [correct |-> 0, total |-> 0]
                 /\ TryAgain \/ (GameModeChange /\ gameMode' # gameMode)]_vars

\* C3: a reveal and a guess accepted by nickname have both been counted.
C3_Witness ==
    /\ showAnswer /\ feedback = "nickname"
    /\ stats = [correct |-> 1, total |-> 2]

\* C4: a reveal (button or R shortcut) does what an incorrect guess on the
\* same card does: stats.total + 1, stats.correct unchanged, feedback
\* INCORRECT, answer shown, and in Rocket mode the altitude lowered by 15
\* (floored at 0) with the crash when it reaches 0.
C4_RevealAsIncorrectGuess ==
    [][(RevealButton \/ RevealKey) =>
          /\ stats' = [stats EXCEPT !.total = stats.total + 1]
          /\ feedback' = "incorrect"
          /\ showAnswer'
          /\ gameMode = "rocket" =>
                 /\ rocketHeight' = Max(0, rocketHeight - 15)
                 /\ rocketHeight' = 0 => rocketCrashed']_vars

\* C4: a reveal in Rocket mode has been counted, at the altitude the session
\* started with.
C4_Witness ==
    /\ gameMode = "rocket" /\ showAnswer /\ feedback = "incorrect"
    /\ guess = <<>> /\ stats = [correct |-> 0, total |-> 1]
    /\ rocketHeight = InitialRocketHeight /\ ~rocketCrashed

\* C5: in Classic mode with INCORRECT feedback showing, the Next Card
\* button, Enter in the correction field and the global Enter shortcut do
\* not advance while the trimmed, lowercased correction input differs from
\* the target; once it matches each of them is accepted; skip advances in
\* either case.
C5_CorrectionGate ==
    [][(PracticeScreen /\ CorrectionShown) =>
          /\ ~checkCorrection(correctionInput) =>
                 ~(NextCardButton \/ CorrectionEnter \/ EnterKey)
          /\ checkCorrection(correctionInput) =>
                 NextCardEnabled /\ correctionComplete /\ EnterAccepted
          /\ Skip => currentIndex' = (currentIndex + 1) % numCards]_vars

\* C5: the correction gate is marked satisfied while the correction input
\* is not the target of the card at the difficulty now selected.
C5_Witness ==
    /\ PracticeScreen /\ CorrectionShown
    /\ correctionComplete
    /\ ~checkCorrection(correctionInput)

\* C6: in Timed and Rocket modes, with INCORRECT feedback showing, the Next
\* Card button and the global Enter shortcut are both accepted.
C6_NoGateOutsideClassic ==
    (PracticeScreen /\ showAnswer /\ feedback = "incorrect"
        /\ gameMode \in {"timed", "rocket"})
    => (NextCardEnabled /\ EnterAccepted)

\* C6: Timed mode shows INCORRECT feedback for a submitted guess and the
\* Next Card button is enabled.
C6_Witness ==
    /\ PracticeScreen /\ showAnswer /\ feedback = "incorrect"
    /\ gameMode = "timed" /\ guess # <<>>
    /\ NextCardEnabled

\* C7: in Rocket mode a guess classified INCORRECT lowers rocketHeight by
\* 15, floored at 0, and a result of 0 marks the session crashed and
\* complete; with no correct answer and no fall to the ground the altitude
\* is one of 50, 35, 20, 5, 0, so the fourth miss in a row ends the session.
C7_IncorrectPenalty ==
    /\ [][\A v \in Typed :
             (gameMode = "rocket" /\ CheckGuess(v) /\ feedback' = "incorrect") =>
                 /\ rocketHeight' = Max(0, rocketHeight - 15)
                 /\ rocketHeight' = 0 => (rocketCrashed' /\ isSessionComplete')]_vars
    /\ []((gameMode = "rocket" /\ stats.correct = 0 /\ crashCalls = 0) =>
             /\ rocketHeight \in {50, 35, 20, 5, 0}
             /\ rocketHeight = 0 => (rocketCrashed /\ isSessionComplete))

\* C7: the fourth incorrect guess in a row has brought the altitude from 50
\* to 0 and ended the session with cards left.
C7_Witness ==
    /\ gameMode = "rocket" /\ feedback = "incorrect" /\ guess # <<>>
    /\ stats = [correct |-> 0, total |-> 4]
    /\ rocketHeight = 0 /\ rocketCrashed /\ crashCalls = 0
    /\ isSessionComplete /\ stats.total < numCards

\* A frame of the running loop that applied gravity.
GravityTick == mounted /\ loop' = loop /\ gravityFrames' = gravityFrames + 1

\* C8: with gravity active and no boost, a tick strictly lowers the actual
\* altitude, never below 0; onCrash is called when the altitude reaches 0
\* and is called at most once in a session, also by ticks that run before
\* the parent has rendered crashed = true.
C8_FallAndCrashOnce ==
    /\ [][(GravityTick /\ ~BoostEdge(loop.boosting, lastBoosting)) =>
             /\ currentHeight > 0 => currentHeight' < currentHeight
             /\ currentHeight' >= 0
             /\ (currentHeight > 0 /\ currentHeight' = 0) =>
                    crashCalls' = crashCalls + 1]_vars
    /\ [](crashCalls <= 1)

\* C8: gravity has brought the rocket to the ground and onCrash was called,
\* while the running loop still holds the props from before the crash.
C8_Witness ==
    /\ mounted /\ GravityOn(loop)
    /\ currentHeight = 0 /\ crashCalls = 1
    /\ rocketCrashed /\ rocketHeight = 0

\* The reset-height effect puts the altitude back to the start.
HeightReset ==
    /\ loop'.rocketHeight = STARTING_ALTITUDE
    /\ loop'.rocketHeight # loop.rocketHeight
    /\ currentHeight < Tenths(10)

\* C9: a frame of the running loop raises the actual altitude only if its
\* boosting flag is true and lastBoostingRef is false, and leaves
\* lastBoostingRef true; while the flag stays true, also over a restart of
\* the loop with new props, the altitude is not raised again.
C9_BoostOnRisingEdge ==
    [][/\ (mounted /\ mounted' /\ loop' = loop /\ currentHeight' > currentHeight) =>
              (loop.boosting /\ ~lastBoosting /\ lastBoosting')
       /\ (mounted /\ mounted' /\ loop' # loop /\ lastBoosting
              /\ loop.boosting /\ rocketBoosting /\ loop'.boosting /\ ~HeightReset) =>
              (currentHeight' <= currentHeight /\ lastBoosting')]_vars

\* C9: a boost from the starting altitude, then a gravity frame with the
\* flag still true: the boost was added once (500 + 350 - 8).
C9_Witness ==
    /\ mounted /\ loop.boosting /\ lastBoosting /\ GravityOn(loop)
    /\ currentHeight = Tenths(STARTING_ALTITUDE) + BoostAmount(Tenths(STARTING_ALTITUDE))
                           - GravityLoss(100)

\* shuffledIndices holds each of 0 .. n-1 once.
IsPermutation(order, n) ==
    /\ Len(order) = n
    /\ \A k \in 0..(n - 1) : \E i \in 1..n : order[i] = k

\* C10: a switch to another game mode leaves stats 0/0, no timer start and
\* no elapsed time, altitude 50, crashed and boosting false, a shuffled
\* order, cursor 0 and the guess, feedback and correction state cleared; the
\* button of the active mode changes nothing of the session.
C10_ModeSwitchRestarts ==
    [][/\ gameMode' # gameMode =>
              /\ stats' = [correct |-> 0, total |-> 0]
              /\ startTime' = NoTime /\ elapsedTime' = 0
              /\ rocketHeight' = 50 /\ ~rocketCrashed' /\ ~rocketBoosting'
              /\ IsPermutation(shuffledIndices', numCards)
              /\ currentIndex' = 0
              /\ guess' = <<>> /\ feedback' = "none" /\ ~showAnswer'
              /\ correctionInput' = <<>> /\ ~correctionComplete'
       /\ (GameModeChange /\ gameMode' = gameMode) => UNCHANGED parentVars]_vars

\* C10: Rocket mode was left for Classic mode while the auto-advance of a
\* correct answer was pending: the new session starts at 0/0.
C10_Witness ==
    /\ gameMode = "classic" /\ advanceTimers > 0
    /\ stats = [correct |-> 0, total |-> 0]
    /\ currentIndex = 0 /\ feedback = "none" /\ rocketHeight = 50

\* A restart of the session: Try Again or a switch to another game mode.
RestartStep == TryAgain \/ (GameModeChange /\ gameMode' # gameMode)

\* C11: in Timed mode the first submitted guess of a session sets startTime
\* to the clock and no later guess changes it; startTime is cleared only by
\* a restart; elapsedTime changes only while the session is incomplete, and
\* then never backwards, or is set to 0 by a restart.
C11_TimerStartAndFreeze ==
    [][/\ (gameMode = "timed" /\ SubmitGuess) =>
              startTime' = (IF startTime = NoTime THEN now ELSE startTime)
       /\ startTime' # startTime =>
              \/ gameMode = "timed" /\ SubmitGuess /\ startTime = NoTime
              \/ RestartStep /\ startTime' = NoTime
       /\ elapsedTime' # elapsedTime =>
              \/ ~isSessionComplete /\ gameMode = "timed" /\ elapsedTime' > elapsedTime
              \/ RestartStep /\ elapsedTime' = 0]_vars

\* C11: a Timed session whose first guess started the timer at 1 is
\* complete with the elapsed time the interval read at 2.
C11_Witness ==
    /\ gameMode = "timed" /\ isSessionComplete
    /\ startTime = 1 /\ now = 2 /\ elapsedTime = 1
    /\ stats.total = numCards /\ numCards > 1

\* The state shuffleCards is to leave: a permutation as the order, cursor 0,
\* nothing typed, no feedback, no answer shown, correction state cleared.
ShuffledState ==
    /\ IsPermutation(shuffledIndices, numCards)
    /\ currentIndex = 0
    /\ guess = <<>> /\ feedback = "none" /\ ~showAnswer
    /\ correctionInput = <<>> /\ ~correctionComplete

\* C12: shuffleCards installs an order that holds each of 0 .. n-1 exactly
\* once, whatever Math.random() returns, and sets the cursor to 0 and clears
\* guess, feedback, shown answer and correction state (a step that does not
\* end in such a state is no shuffle).
C12_ShufflePermutation ==
    [][/\ ~ShuffledState' => ~(FineShuffle \/ ShuffleButton)
       /\ shuffledIndices' # <<>> => IsPermutation(shuffledIndices', numCards)]_vars

\* C12: a session in progress was shuffled into an order that takes a
\* random choice strictly inside 0..i.
C12_Witness ==
    /\ shuffledIndices = <<2, 0, 1>>
    /\ currentIndex = 0 /\ stats.total > 0
    /\ guess = <<>> /\ feedback = "none" /\ ~showAnswer

\* C13: with no eligible card the view stays in the state it was
\* constructed in (no guess, reveal, advance, shortcut, timer or frame has
\* acted, the cursor is 0), the session is not complete and what is
\* rendered is not the practice screen.
C13_NoSessionWithoutCards ==
    numCards = 0 => (Constructed(0) /\ ~isSessionComplete /\ ~PracticeScreen)

\* C13: the view of a deck without eligible cards.
C13_Witness ==
    /\ numCards = 0 /\ ~PracticeScreen /\ ~isSessionComplete
    /\ stats.total = 0 /\ currentIndex = 0 /\ ~mounted


\* A step in which a call of submitScore or of updateMnemonic throws.
CallFails == ScoreFails \/ MnemonicFails

\* A call of submitScore or of updateMnemonic has not returned, or the
\* flag of one is still set.
CallPending == scoreCalls # <<>> \/ mnemonicCalls > 0 \/ submittingScore \/ saving

\* C14: a failing call of submitScore or updateMnemonic leaves the stats,
\* the cursor, the feedback and the completion of the session as they were,
\* and in every state, whatever calls are pending or have failed, the user
\* can advance from a shown answer, restart a complete session and switch
\* the mode of a running one.
C14_CallsNeverBlock ==
    /\ [](/\ (numCards > 0 /\ isSessionComplete) => ENABLED TryAgain
          /\ PracticeScreen => ENABLED (GameModeChange /\ gameMode' # gameMode)
          /\ (/\ PracticeScreen /\ showAnswer
              /\ ~(feedback = "incorrect" /\ ~correctionComplete /\ gameMode = "classic"))
             => ENABLED NextCardButton)
    /\ [][(\/ stats' # stats
           \/ currentIndex' # currentIndex
           \/ feedback' # feedback
           \/ isSessionComplete' # isSessionComplete) => ~CallFails]_vars

\* A second session is under way, one card answered and shown, while the
\* first session's submitScore call and an updateMnemonic call are pending.
C14_Witness ==
    /\ Len(scoreCalls) = 1 /\ scoreCalls[1].total = numCards
    /\ submitScoreGiven /\ ~submittingScore /\ ~scoreSubmitted
    /\ saving /\ mnemonicCalls = 1
    /\ PracticeScreen /\ showAnswer /\ stats.total = 1

\* The answer of a Rocket session that scheduled an auto-advance is still
\* the one on screen.
RocketAnswerShown ==
    /\ gameMode = "rocket" /\ PracticeScreen
    /\ showAnswer /\ feedback \in {"correct", "nickname"}

\* C15: the auto-advance timer moves the cursor only while the correct
\* answer it was scheduled for is still on screen in the same Rocket
\* session; after Next Card, Enter, a shuffle, a restart or a mode switch
\* it moves nothing.
C15_AutoAdvanceOnlyItsCard ==
    [][currentIndex' # currentIndex => (AutoAdvanceTimer => RocketAnswerShown)]_vars

\* C15: an auto-advance is still pending while the next card of the Rocket
\* session is already awaiting its guess.
C15_Witness ==
    /\ advanceTimers > 0
    /\ gameMode = "rocket" /\ PracticeScreen
    /\ ~showAnswer /\ feedback = "none" /\ currentIndex = 1 /\ stats.total = 1

\* C16: the requested animation frames are, in every reachable state, the
\* single frame of the loop started by the latest run of the animation
\* effect while RocketGame is mounted, and none once it is unmounted: a
\* restart of the loop or an unmount leaves no frame of an older loop.
C16_OneTickDriver ==
    animationFrames = IF mounted THEN <<loop>> ELSE <<>>

\* C16: the loop has been restarted by prop changes (an answer was given
\* and the next card is up) and its frames apply gravity again.
C16_Witness ==
    /\ mounted /\ animationFrames = <<loop>>
    /\ stats.total = 1 /\ ~showAnswer
    /\ GravityOn(loop) /\ gravityFrames > 0
    /\ currentHeight < Tenths(rocketHeight)

\* C17: while a session with at least one answered card is running, the
\* card order is replaced by no step other than a restart (Try Again or a
\* switch of the mode).
C17_OrderFixedInSession ==
    [][(shuffledIndices' # shuffledIndices /\ PracticeScreen /\ stats.total > 0)
          => RestartStep]_vars

\* C17: a running classic session with one card answered has a shuffled
\* order, the cursor at 0 and no answer on screen.
C17_Witness ==
    /\ PracticeScreen /\ gameMode = "classic"
    /\ stats.total = 1 /\ currentIndex = 0 /\ ~showAnswer
    /\ shuffledIndices = <<1, 0>>

\* A step of one of the controls that call nextCard.
NextCardStep == NextCardButton \/ EnterKey \/ CorrectionEnter \/ Skip

BoostRise == mounted /\ mounted' /\ ~lastBoosting /\ lastBoosting'

\* C19: a rising edge of boosting at altitude a (tenths of a percent,
\* 0..1000) leaves the altitude at min(1000, a + (500 - 0.3 a)), the
\* fraction of a tenth dropped: 500 is added at the ground, 200 at the
\* ceiling, each tenth of altitude takes 0.3 tenths off the amount, and the
\* result is never above the ceiling.
C19_BoostAmount ==
    [][BoostRise =>
          /\ currentHeight \in 0..Tenths(CeilingHeight)
          /\ currentHeight' = Min(1000, currentHeight + (5000 - 3 * currentHeight) \div 10)
          /\ currentHeight' <= Tenths(CeilingHeight)
          /\ currentHeight = 0 => currentHeight' = 500
          /\ currentHeight = 200 => currentHeight' = 200 + 440]_vars

\* C19: a boost given at 20.0 percent has taken the rocket to 64.0 percent.
C19_Witness ==
    /\ mounted /\ lastBoosting /\ rocketBoosting
    /\ stats = [correct |-> 1, total |-> 1]
    /\ currentHeight = 640

\* A frame requested by the running loop.
FrameStep == mounted /\ mounted' /\ loop' = loop /\ animationFrames # <<>>
                 /\ parentVarsButCrash' = parentVarsButCrash

\* C20: while RocketGame is mounted the smoothed visual altitude is within
\* 0..100 percent, and a frame leaves it between its old value and the
\* actual altitude the frame computed, never beyond that altitude.
C20_VisualWithinRange ==
    /\ [](mounted => visualHeight \in 0..Tenths(CeilingHeight))
    /\ [][FrameStep =>
             /\ visualHeight' >= Min(visualHeight, currentHeight')
             /\ visualHeight' <= Max(visualHeight, currentHeight')]_vars

\* C20: no answer was given and no boost, gravity frames have run, and the
\* visual altitude is below the actual altitude it follows downwards.
C20_Witness ==
    /\ mounted /\ GravityOn(loop) /\ gravityFrames > 0
    /\ stats.total = 0 /\ ~lastBoosting /\ boostTimers = 0
    /\ visualHeight < currentHeight

\* Values of visualHeightRef from below the ground to above the ceiling.
VisualValues == {25 * k : k \in (-2)..42}

\* C21: in every reachable state of a mounted RocketGame, a call of render()
\* with the props of the running loop or of the latest render, with any
\* frame length the loop uses, leaves the same actual altitude and the same
\* boost flag and makes the same crash call whatever value visualHeightRef
\* holds; so runs that differ only in the visual altitude go through the
\* same altitudes, crash notifications, stats, cursors and completion.
C21_VisualNotRead ==
    mounted =>
        \A p \in {loop, Props}, dt \in {0} \cup {ClampDelta(raw) : raw \in FrameGaps},
           w \in VisualValues :
            LET a == Render(currentHeight, visualHeight, lastBoosting, p, dt)
                b == Render(currentHeight, w, lastBoosting, p, dt)
            IN  /\ a.height = b.height
                /\ a.lastBoosting = b.lastBoosting
                /\ a.crash = b.crash

\* C21: after a correct answer the boost has raised the actual altitude and
\* the visual altitude is still on its way up to it.
C21_Witness ==
    /\ mounted /\ lastBoosting /\ stats.correct = 1 /\ crashCalls = 0
    /\ visualHeight < currentHeight - Tenths(10)

\* C22: a step that lowers the actual altitude of the mounted rocket is
\* taken only in Rocket mode, with no answer shown, the rocket not crashed
\* and the session not complete; in particular not while feedback is shown.
C22_GravityOnlyWhileAwaiting ==
    [][(mounted /\ mounted' /\ currentHeight' < currentHeight) =>
          /\ gameMode = "rocket" /\ ~showAnswer /\ feedback = "none"
          /\ ~rocketCrashed /\ ~isSessionComplete]_vars

\* C22: gravity frames have lowered the altitude, then an incorrect answer
\* was given and is shown, and the running loop has gravity switched off.
C22_Witness ==
    /\ mounted /\ showAnswer /\ feedback = "incorrect"
    /\ gravityFrames > 0 /\ currentHeight < Tenths(STARTING_ALTITUDE)
    /\ ~GravityOn(loop) /\ animationFrames = <<loop>>

\* A step that starts or restarts a Rocket session.
RocketStart ==
    /\ gameMode' = "rocket"
    /\ TryAgain \/ StartPractice \/ (GameModeChange /\ gameMode # "rocket")

\* C23: a step that starts or restarts a Rocket session (Start Practice,
\* Try Again, a switch to Rocket mode) leaves the rocket mounted with its
\* actual altitude at the starting altitude.
C23_StartsAtStartingAltitude ==
    [][(~mounted' \/ currentHeight' # Tenths(STARTING_ALTITUDE)) => ~RocketStart]_vars

\* C23: a Rocket session has just been started from the deck page and the
\* rocket is mounted with the boosting flag of the session before still set.
C23_Witness ==
    /\ isPracticing /\ gameMode = "rocket" /\ mounted
    /\ stats.total = 0 /\ rocketHeight = InitialRocketHeight
    /\ rocketBoosting /\ lastBoosting /\ gravityFrames = 0

(* ------------------------------- C24 ----------------------------------- *)

\* The call of uploadPhoto is over.
UploadOver == uploadPc \in {"returned", "thrown"}

\* What holds at every point of the call: no more than maxRetries attempts,
\* a wait of 1000, 2000, ... ms after every failed attempt but the last, the
\* public URL exactly after an attempt without error, and the error of the
\* last attempt thrown after maxRetries failed ones.
UploadSafe ==
    /\ uploadAttempt <= maxRetries
    /\ Len(uploadErrors) <= maxRetries
    /\ uploadWaits = SubSeq(<<1000, 2000>>, 1, Len(uploadWaits))
    /\ uploadPc = "uploading" =>
           Len(uploadErrors) = uploadAttempt - 1 /\ Len(uploadWaits) = uploadAttempt - 1
    /\ uploadPc = "waiting" =>
           /\ uploadAttempt < maxRetries
           /\ Len(uploadErrors) = uploadAttempt
           /\ Len(uploadWaits) = uploadAttempt
    /\ uploadPc = "thrown" =>
           /\ uploadAttempt = maxRetries
           /\ Len(uploadErrors) = maxRetries
           /\ Len(uploadWaits) = maxRetries - 1
           /\ uploadResult = uploadErrors[maxRetries]
    /\ (uploadPc = "returned" /\ uploadResult = "publicUrl") =>
           /\ Len(uploadErrors) = uploadAttempt - 1
           /\ Len(uploadWaits) = uploadAttempt - 1
    /\ uploadResult = "publicUrl" => uploadPc = "returned"

C25_OneAltitude ==
    [][(gameMode = "rocket" /\ mounted /\ currentHeight # Tenths(rocketHeight)) =>
          ~SubmitGuess]_vars

\* C25: the next answer is awaited after an incorrect one that took
\* rocketHeight from 50 to 35 and left the altitude of the canvas at 50.
C25_Witness ==
    /\ gameMode = "rocket" /\ mounted
    /\ PracticeScreen /\ ~showAnswer
    /\ stats = [correct |-> 0, total |-> 1]
    /\ rocketHeight = 35
    /\ currentHeight = Tenths(STARTING_ALTITUDE)

(* ------------------------------- C26 ----------------------------------- *)

\* C26: whenever the session awaits a guess the cursor equals stats.total:
\* every card before the cursor was answered or revealed exactly once, none
\* is asked twice and none is passed over.
C26_CursorIsTotal ==
    (PracticeScreen /\ ~showAnswer) => currentIndex = stats.total

\* C26: after one answered card of a two-card deck a guess is awaited at
\* cursor 0 again.
C26_Witness ==
    /\ PracticeScreen /\ ~showAnswer
    /\ numCards = 2 /\ guess = <<>> /\ feedback = "none"
    /\ stats.total = 1 /\ currentIndex = 0

(* ------------------------------- C27 ----------------------------------- *)

\* C27: a submitScore call that fails is swallowed and the auto-submit
\* effect makes no further call for the session, so the number of calls is
\* bounded and, whenever one is in flight, later none is.
C27_NoResubmitAfterFailure ==
    /\ [][ScoreFails => Len(scoreCalls') < Len(scoreCalls)]_vars
    /\ [](scoreCalls # <<>> => <>(scoreCalls = <<>>))

\* C27: the session is complete, its submission is in flight and has not
\* succeeded: the call may now throw.
C27_Witness ==
    /\ isSessionComplete /\ submitScoreGiven
    /\ ~scoreSubmitted /\ submittingScore
    /\ scoreCalls = <<ScorePayload>>

(* ------------------------------- C28 ----------------------------------- *)

\* C28: a session is marked submitted (scoreSubmitted) only by the return
\* of a submission of its own stats, made when it was complete: a call of
\* an earlier session that returns after a restart does not mark the new
\* session.
C28_SubmittedOwnSession ==
    /\ [][(ScoreResolves /\ scoreSubmitted') =>
             /\ isSessionComplete
             /\ \E i \in 1..Len(scoreCalls) :
                    /\ scoreCalls' = RemoveAt(scoreCalls, i)
                    /\ scoreCalls[i].score = stats.correct
                    /\ scoreCalls[i].total = stats.total
                    /\ scoreCalls[i].gameMode = gameMode]_vars
    /\ [](scoreSubmitted => isSessionComplete)

\* C28: a new session has just begun, nothing is in flight, and it is
\* already marked submitted.
C28_Witness ==
    /\ PracticeScreen /\ stats.total = 0
    /\ scoreSubmitted /\ ~submittingScore /\ scoreCalls = <<>>

(* ------------------------------- C29 ----------------------------------- *)

\* C29: whenever correctionComplete is true the correction input, trimmed
\* and lowercased, is the target of the current card at the difficulty now
\* selected; a change of difficulty while INCORRECT feedback is shown does
\* not leave the gate satisfied for the former target.
C29_GateMatchesTarget ==
    correctionComplete => checkCorrection(correctionInput)

\* C29: the first name was typed as the correction at the first-name
\* difficulty, then the difficulty was set to full name: the gate is still
\* satisfied and the input is not the full name.
C29_Witness ==
    /\ feedback = "incorrect" /\ gameMode = "classic"
    /\ difficulty = "full"
    /\ correctionComplete
    /\ correctionInput # <<>>
    /\ Trim(ToLowerCase(correctionInput)) # ToLowerCase(getTargetName)

(* ------------------------------- C30 ----------------------------------- *)

\* checkGuess has classified a Rocket guess as correct or as a nickname
\* match and the session goes on.
RightRocketAnswer ==
    /\ gameMode = "rocket" /\ mounted
    /\ ~showAnswer /\ showAnswer'
    /\ feedback' \in {"correct", "nickname"}
    /\ ~isSessionComplete'

\* C30: every correct or nickname answer of a Rocket session that goes on
\* takes the boosting flag from false to true and boosts the actual
\* altitude once (up to the ceiling), also when it is given while the
\* 500 ms timer of the answer before is pending.
C30_OneBoostPerAnswer ==
    [][RightRocketAnswer =>
          /\ ~rocketBoosting /\ rocketBoosting'
          /\ \/ currentHeight' > currentHeight
             \/ currentHeight' = Tenths(CeilingHeight)]_vars

\* C30: two correct answers were given, the second while the 500 ms timer
\* of the first was pending, and the altitude is that of a single boost.
C30_Witness ==
    /\ gameMode = "rocket" /\ mounted
    /\ stats = [correct |-> 2, total |-> 2]
    /\ boostTimers = 2 /\ rocketBoosting
    /\ currentHeight = Tenths(STARTING_ALTITUDE) + BoostAmount(Tenths(STARTING_ALTITUDE))
====
